---------------------------- MODULE Spec2Model ----------------------------
(***************************************************************************)
(* A model of the two batch downloaders of wallhaven_downloader:           *)
(*                                                                         *)
(*   - WallpaperDownloadThread and the MainWindow handlers that start it,  *)
(*     stop it and receive its signals (src/src/main_window.py);           *)
(*   - DownloadWorker (src/test.py).                                       *)
(*                                                                         *)
(* Spec is the specification of the first, SpecWorker of the second.       *)
(* SpecFirstRun and SpecResume are one run of the first, without and with  *)
(* a sidecar file; SpecWindow is the second with its window; SpecLive is   *)
(* one run of either under weak fairness of its steps.                     *)
(***************************************************************************)
EXTENDS Integers, Sequences, FiniteSets, TLC

(***************************************************************************)
(* Bounds of the model.                                                    *)
(***************************************************************************)
MaxPageCount == 2
MaxListed == 2
MaxConcurrent == 2
MaxRuns == 2
MaxRetries == 2
MaxChunks == 2

(***************************************************************************)
(* Program constants.                                                      *)
(***************************************************************************)
images_per_page == 64

\* Retry(total=3, status_forcelist=[429, 500, 502, 503, 504]) of the
\* session's adapter.
transport_total == 3

(***************************************************************************)
(* Remote assets.  A URL is a directory and a last path segment; a file    *)
(* name is kept as its prefix, stem and extension so that startswith and   *)
(* endswith can be computed on it.                                         *)
(***************************************************************************)
Urls ==
    { [dir |-> "full/aa/", name |-> <<"wallhaven-", "aa", ".jpg">>],
      [dir |-> "full/cc/", name |-> <<"wallhaven-", "cc", ".gif">>] }

Basename(url) == url.name

FileNames == { Basename(u) : u \in Urls }

StartsWith(f, prefix) == f[1] = prefix

EndsWith(f, suffix) == f[Len(f)] = suffix

\* The test of the os.listdir loop that builds existing_files.
IsWallpaperFile(f) ==
    StartsWith(f, "wallhaven-") /\ (EndsWith(f, ".jpg") \/ EndsWith(f, ".png"))

\* What the listing endpoint can answer for one page: a sequence of
\* descriptors, repetitions allowed.
PageContents ==
    UNION { [1..n -> Urls] : n \in 0..MaxListed }

\* Outcomes of one HTTP GET: status 200, another status, an exception.
GetOutcomes == {"ok", "status", "error"}

(***************************************************************************)
(* Python values.  A collection is a set or (after json.load) a list; the  *)
(* model keeps the kind because set.add exists and list.add does not, and  *)
(* because json.dump serialises a list and raises TypeError on a set.      *)
(***************************************************************************)
PySet(items) == [kind |-> "set", items |-> items]

PyList(items) == [kind |-> "list", items |-> items]

HasAdd(coll) == coll.kind = "set"

Add(coll, x) == [coll EXCEPT !.items = @ \cup {x}]

Min(a, b) == IF a <= b THEN a ELSE b

(***************************************************************************)
(* The sidecar file .download_state.json.                                  *)
(***************************************************************************)
NoFile == [exists |-> FALSE]

\* json.dump(resume_state, f, indent=2) writes the keys in order, chunk by
\* chunk, and raises TypeError at the first value it cannot serialise: what
\* was written before stays in the file.
JsonDump(rs) ==
    IF rs.processed_urls.kind = "set"
    THEN [exists |-> TRUE, complete |-> FALSE,
          current_page |-> rs.current_page]
    ELSE IF rs.downloaded_files.kind = "set"
    THEN [exists |-> TRUE, complete |-> FALSE,
          current_page |-> rs.current_page,
          processed_urls |-> rs.processed_urls.items]
    ELSE [exists |-> TRUE, complete |-> TRUE,
          current_page |-> rs.current_page,
          processed_urls |-> rs.processed_urls.items,
          downloaded_files |-> rs.downloaded_files.items,
          total_images |-> rs.total_images,
          downloaded_images |-> rs.downloaded_images,
          duplicate_images |-> rs.duplicate_images,
          concurrent_downloads |-> rs.concurrent_downloads]

\* A loader that makes the most of a truncated file.
JsonLoadPartial(file) ==
    [ok |-> TRUE,
     current_page |-> file.current_page,
     processed_urls |-> PyList({}),
     downloaded_files |-> PyList({}),
     total_images |-> 0,
     downloaded_images |-> 0,
     duplicate_images |-> 0,
     concurrent_downloads |-> 1]

\* json.load(f): a dict whose arrays are lists, or JSONDecodeError on a
\* truncated file.
JsonLoad(file) ==
    IF file.complete
    THEN [ok |-> TRUE,
          current_page |-> file.current_page,
          processed_urls |-> PyList(file.processed_urls),
          downloaded_files |-> PyList(file.downloaded_files),
          total_images |-> file.total_images,
          downloaded_images |-> file.downloaded_images,
          duplicate_images |-> file.duplicate_images,
          concurrent_downloads |-> file.concurrent_downloads]
    ELSE [ok |-> FALSE]

VARIABLES
    \* the remote listing, page by page, as far as it has been fetched
    listing,
    \* the destination directory: the image files in it, the sidecar file
    disk, state_file,
    \* WallpaperDownloadThread: its fields and the locals of run()
    pc, is_running, page_count, concurrent_downloads, is_resuming,
    start_page, current_page, processed_urls, all_image_urls,
    downloaded_files, existing_files, total_images, downloaded_images,
    duplicate_images, unique_images_to_download, page_id, extra_last, img_i,
    futures, yielded,
    \* MainWindow: the handler it is in, the download button, and the queued
    \* signals whose slots change more than widgets
    main_pc, download_btn, signals,
    \* history of the runs
    run_no, stop_called, stop_snap, prev, writes_after_stop, all_ok,
    list_failed, ended, last_progress,
    \* DownloadWorker: the listing and the directory it works on, its fields
    \* and the locals of run(), download_page and download_image_with_retry
    w_listing, w_disk, w_pc, w_is_running, pages, max_retries, page, w_i,
    attempt, chunks_left, w_result, success_count, failed_count,
    skipped_count,
    \* the HTTP requests the session has sent for the asset in hand
    srv_requests,
    \* what the worker has told the window: the listing error of its last
    \* error_occurred, the percent of its last progress_updated
    w_error, w_progress,
    \* history of the worker's run
    enumerated, w_handled, w_ended,
    \* WallhavenDownloader: its reference to the worker, the start button,
    \* and the workers it has let go of while their run() was executing
    download_worker, start_button, orphans

envVars == <<listing, disk, state_file>>

cfgVars == <<page_count, concurrent_downloads, is_resuming>>

listVars == <<current_page, processed_urls, all_image_urls>>

countVars ==
    <<total_images, downloaded_images, duplicate_images,
      unique_images_to_download>>

loopVars == <<start_page, page_id, extra_last, img_i>>

poolVars == <<futures, yielded>>

threadVars ==
    <<pc, is_running, cfgVars, listVars, countVars, loopVars, poolVars,
      downloaded_files, existing_files>>

windowVars == <<download_worker, start_button, orphans>>

mainVars == <<main_pc, download_btn, windowVars>>

runVars == <<run_no, stop_called, stop_snap, prev>>

histVars ==
    <<runVars, writes_after_stop, all_ok, list_failed, ended, last_progress>>

workerEnv == <<w_listing, w_disk>>

workerCfg == <<pages, max_retries>>

workerLoop == <<page, w_i, attempt, chunks_left, w_result>>

counters == <<success_count, failed_count, skipped_count>>

workerHist == <<enumerated, w_handled, w_ended>>

netVars == <<srv_requests>>

eventVars == <<w_error, w_progress>>

workerVars ==
    <<workerEnv, w_pc, w_is_running, workerCfg, workerLoop, counters,
      netVars, eventVars, workerHist>>

vars == <<envVars, threadVars, mainVars, signals, histVars, workerVars>>

(***************************************************************************)
(* WallpaperDownloadThread and MainWindow.                                 *)
(***************************************************************************)
NoSnap == [taken |-> FALSE]

NoPrev == [run |-> FALSE]

Emit(queue, signal) == Append(queue, signal)

\* QThread.isRunning(): from start() until run() has returned.
ThreadRunning == pc \notin {"idle", "done"}

\* The share of the transfers that are still to come.
PercentOfRest(done, total) == Min(100, ((total - done) * 100) \div total)

\* progress = min(100, int((downloaded_images / unique_images_to_download) * 100))
Percent(done, total) == Min(100, (done * 100) \div total)

\* No DownloadWorker has been created.
IdleWorker ==
    /\ w_listing = [p \in {} |-> <<>>]
    /\ w_disk = [f \in FileNames |-> "none"]
    /\ w_pc = "idle"
    /\ w_is_running = FALSE
    /\ pages = 1
    /\ max_retries = 1
    /\ page = 1
    /\ w_i = 1
    /\ attempt = 0
    /\ chunks_left = 0
    /\ w_result = "none"
    /\ success_count = 0
    /\ failed_count = 0
    /\ skipped_count = 0
    /\ srv_requests = 0
    /\ w_error = "none"
    /\ w_progress = -1
    /\ enumerated = 0
    /\ w_handled = [outcome |-> "none"]
    /\ w_ended = "none"
    /\ download_worker = "None"
    /\ start_button = TRUE
    /\ orphans = 0

\* No WallpaperDownloadThread has been created.
IdleThread ==
    /\ listing = [p \in {} |-> <<>>]
    /\ pc = "idle"
    /\ is_running = FALSE
    /\ page_count = 1
    /\ concurrent_downloads = 1
    /\ is_resuming = FALSE
    /\ start_page = 1
    /\ current_page = 1
    /\ processed_urls = PySet({})
    /\ all_image_urls = <<>>
    /\ downloaded_files = PySet({})
    /\ existing_files = {}
    /\ total_images = 0
    /\ downloaded_images = 0
    /\ duplicate_images = 0
    /\ unique_images_to_download = 0
    /\ page_id = 1
    /\ extra_last = 0
    /\ img_i = 1
    /\ futures = <<>>
    /\ yielded = {}
    /\ main_pc = "idle"
    /\ download_btn = TRUE
    /\ signals = <<>>
    /\ run_no = 0
    /\ stop_called = FALSE
    /\ stop_snap = NoSnap
    /\ prev = NoPrev
    /\ writes_after_stop = 0
    /\ all_ok = TRUE
    /\ list_failed = FALSE
    /\ ended = "none"
    /\ last_progress = -1

\* The window before the first download: the destination directory holds
\* any of the files, and no sidecar file.
InitThread ==
    /\ disk \in SUBSET FileNames
    /\ state_file = NoFile
    /\ IdleThread
    /\ IdleWorker

\* MainWindow.startDownload with WallpaperDownloadThread.__init__: the user
\* has set pcnt pages, the settings hold conc concurrent downloads, and reply
\* is the answer to the "resume?" question asked when the sidecar exists.
StartDownload(pcnt, conc, reply) ==
    /\ main_pc = "idle"
    /\ download_btn
    /\ ~ThreadRunning
    /\ signals = <<>>
    /\ run_no < MaxRuns
    /\ state_file.exists \/ reply = "Yes"
    /\ LET loaded == IF state_file.exists /\ reply = "Yes"
                     THEN JsonLoad(state_file)
                     ELSE [ok |-> FALSE]
           resumed == loaded.ok
       IN  /\ state_file' = IF state_file.exists /\ reply = "No"
                            THEN NoFile
                            ELSE state_file
           /\ concurrent_downloads' =
                  IF resumed THEN loaded.concurrent_downloads ELSE conc
           /\ current_page' = IF resumed THEN loaded.current_page ELSE 1
           /\ processed_urls' =
                  IF resumed THEN loaded.processed_urls ELSE PySet({})
           /\ downloaded_files' =
                  IF resumed THEN loaded.downloaded_files ELSE PySet({})
           /\ is_resuming' = resumed
           /\ prev' = [run |-> run_no > 0,
                       clean |-> (ended = "completed" /\ ~stop_called
                                     /\ all_ok),
                       stopped |-> stop_called,
                       page_count |-> page_count,
                       discarded |-> (state_file.exists /\ reply = "No")]
    /\ page_count' = pcnt
    /\ is_running' = TRUE
    /\ total_images' = 0
    /\ downloaded_images' = 0
    /\ duplicate_images' = 0
    /\ unique_images_to_download' = 0
    /\ pc' = "run"
    /\ download_btn' = FALSE
    /\ run_no' = run_no + 1
    /\ stop_called' = FALSE
    /\ writes_after_stop' = 0
    /\ all_ok' = TRUE
    /\ list_failed' = FALSE
    /\ ended' = "none"
    /\ last_progress' = -1
    /\ UNCHANGED workerVars
    /\ UNCHANGED <<listing, disk, all_image_urls, existing_files, loopVars,
                   poolVars, main_pc, windowVars, signals, stop_snap>>

\* A run that always enumerates from page 1.
StartPageOne == 1

\* start_page = self.current_page if self.is_resuming else 1
StartPage == IF is_resuming THEN current_page ELSE 1

\* run(): the first statements, up to the listing loop; the locals of an
\* earlier run() are gone.
RunBegin ==
    /\ pc = "run"
    /\ start_page' = StartPage
    /\ page_id' = StartPage
    /\ all_image_urls' = <<>>
    /\ existing_files' = {}
    /\ extra_last' = 0
    /\ img_i' = 1
    /\ futures' = <<>>
    /\ yielded' = {}
    /\ pc' = "list"
    /\ UNCHANGED workerVars
    /\ UNCHANGED <<envVars, is_running, cfgVars, current_page,
                   processed_urls, countVars, downloaded_files, mainVars,
                   signals, histVars>>

\* The head of the listing loop: range exhausted, stopped, or a GET.
ListCheck ==
    /\ pc = "list"
    /\ pc' = IF page_id > page_count \/ ~is_running
             THEN "filter"
             ELSE "list_get"
    /\ UNCHANGED workerVars
    /\ UNCHANGED <<envVars, is_running, cfgVars, listVars, countVars,
                   loopVars, poolVars, downloaded_files, existing_files,
                   mainVars, signals, histVars>>

\* The loop that collects the URLs of one page: [all, seen, raised].
RECURSIVE Collect(_, _, _, _)
Collect(page_data, all, seen, resuming) ==
    IF page_data = <<>>
    THEN [all |-> all, seen |-> seen, raised |-> FALSE]
    ELSE LET img_url == Head(page_data)
         IN  IF ~resuming \/ img_url \notin seen.items
             THEN IF HasAdd(seen)
                  THEN Collect(Tail(page_data), Append(all, img_url),
                               Add(seen, img_url), resuming)
                  ELSE [all |-> Append(all, img_url), seen |-> seen,
                        raised |-> TRUE]
             ELSE Collect(Tail(page_data), all, seen, resuming)

\* The number of descriptors of the pages fetched so far.
RECURSIVE Listed(_, _)
Listed(known, ps) ==
    IF ps = {} THEN 0
    ELSE LET p == CHOOSE q \in ps : TRUE
         IN  Len(known[p]) + Listed(known, ps \ {p})

\* The listing known after page p has answered with content.
Fetched(known, p, content) ==
    [q \in DOMAIN known \cup {p} |-> IF q = p THEN content ELSE known[q]]

\* The listing endpoint answers the same for a page whenever it is asked,
\* and the whole listing holds at most MaxListed descriptors.
Answers(known, p, content) ==
    IF p \in DOMAIN known
    THEN known[p] = content
    ELSE Listed(known, DOMAIN known) + Len(content) <= MaxListed

\* The response of the GET of a listing page.
ListResponse(outcome, content) ==
    /\ pc = "list_get"
    /\ IF outcome # "ok"
       THEN /\ signals' = Emit(signals, [sig |-> "download_failed"])
            /\ pc' = "done"
            /\ ended' = "failed"
            /\ list_failed' = (outcome = "status")
            /\ UNCHANGED <<listing, listVars, page_id>>
       ELSE /\ Answers(listing, page_id, content)
            /\ listing' = Fetched(listing, page_id, content)
            /\ LET c == Collect(content, all_image_urls, processed_urls,
                                is_resuming)
               IN  /\ all_image_urls' = c.all
                   /\ processed_urls' = c.seen
                   /\ IF c.raised
                      THEN /\ signals' =
                                 Emit(signals, [sig |-> "download_failed"])
                           /\ pc' = "done"
                           /\ ended' = "failed"
                           /\ UNCHANGED <<current_page, page_id>>
                      ELSE /\ current_page' = page_id
                           /\ page_id' = page_id + 1
                           /\ pc' = "list"
                           /\ UNCHANGED <<signals, ended>>
            /\ UNCHANGED list_failed
    /\ UNCHANGED workerVars
    /\ UNCHANGED <<disk, state_file, is_running, cfgVars, countVars,
                   start_page, extra_last, img_i, poolVars, downloaded_files,
                   existing_files, mainVars, runVars, writes_after_stop,
                   all_ok, last_progress>>

\* The DedupFilter test of run(): a transfer is needed for a file name that
\* is neither in existing_files nor in downloaded_files.
IsNeeded(filename, existing, downloaded) ==
    filename \notin existing /\ filename \notin downloaded.items

\* ThreadPoolExecutor.submit for every URL of unique_image_urls.
Submit(urls) ==
    [i \in 1..Len(urls) |-> [st |-> "pending", url |-> urls[i],
                              result |-> "none"]]

\* An extension by one page for every image that is missing.
additional_pages_per_image(target, total) == target - total

\* additional_pages_needed = (target_total_images - self.total_images
\*                            + images_per_page - 1) // images_per_page
additional_pages_needed(target, total) ==
    (target - total + images_per_page - 1) \div images_per_page

\* run() from the end of the listing loop to the worker pool: the counts,
\* the scan of the directory, the dedup filter, and the choice between the
\* pool, the additional pages and completion.
Filter ==
    /\ pc = "filter"
    /\ LET existing == { f \in disk : IsWallpaperFile(f) }
           unique == SelectSeq(all_image_urls,
                         LAMBDA u : IsNeeded(Basename(u), existing,
                                             downloaded_files))
           total == Len(all_image_urls)
           target == images_per_page * page_count
       IN  /\ total_images' = total
           /\ existing_files' = existing
           /\ unique_images_to_download' = Len(unique)
           /\ duplicate_images' = duplicate_images + (total - Len(unique))
           /\ IF Len(unique) = 0
              THEN IF total < target /\ is_running
                   THEN /\ page_id' = page_count + 1
                        /\ extra_last' = page_count
                               + additional_pages_needed(target, total)
                        /\ pc' = "extra"
                        /\ UNCHANGED <<poolVars, signals, ended>>
                   ELSE /\ signals' =
                              Emit(signals, [sig |-> "download_completed"])
                        /\ pc' = "done"
                        /\ ended' = "completed"
                        /\ UNCHANGED <<page_id, extra_last, poolVars>>
              ELSE /\ futures' = Submit(unique)
                   /\ yielded' = {}
                   /\ pc' = "pool"
                   /\ UNCHANGED <<page_id, extra_last, signals, ended>>
    /\ UNCHANGED workerVars
    /\ UNCHANGED <<envVars, is_running, cfgVars, listVars, downloaded_images,
                   start_page, img_i, downloaded_files, mainVars, runVars,
                   writes_after_stop, all_ok, list_failed, last_progress>>

\* The tasks a pool thread is executing, and the tasks still queued.
Running == { i \in DOMAIN futures : futures[i].st = "running" }

Pending == { i \in DOMAIN futures : futures[i].st = "pending" }

\* A pool that takes every queued task at once.
WorkerFreeUnbounded == TRUE

\* A pool whose threads never take a task.
WorkerFreeNever == FALSE

\* ThreadPoolExecutor(max_workers=self.concurrent_downloads): a task leaves
\* the work queue only when one of the max_workers threads is idle.
WorkerFree == Cardinality(Running) < concurrent_downloads

\* A pool thread takes the oldest queued task and runs download_single_image
\* up to its GET: a task that finds is_running false returns None at once.
TaskStart(i) ==
    /\ pc \in {"pool", "join"}
    /\ i \in Pending
    /\ \A j \in Pending : i <= j
    /\ WorkerFree
    /\ futures' = [futures EXCEPT
                      ![i].st = IF is_running THEN "running" ELSE "finished"]
    /\ UNCHANGED workerVars
    /\ UNCHANGED <<envVars, pc, is_running, cfgVars, listVars, countVars,
                   loopVars, yielded, downloaded_files, existing_files,
                   mainVars, signals, histVars>>

\* download_single_image from the response of its GET to its return value:
\* on status 200 the file is written and its name recorded, by the pool
\* thread; an exception (also the one a list raises on add) gives a failure.
TaskFinish(i, outcome) ==
    /\ i \in Running
    /\ IF outcome = "ok"
       THEN /\ disk' = disk \cup {Basename(futures[i].url)}
            /\ writes_after_stop' =
                   IF is_running THEN writes_after_stop
                   ELSE writes_after_stop + 1
            /\ IF HasAdd(downloaded_files)
               THEN /\ downloaded_files' =
                          Add(downloaded_files, Basename(futures[i].url))
                    /\ futures' = [futures EXCEPT ![i].st = "finished",
                                                  ![i].result = "ok"]
               ELSE /\ futures' = [futures EXCEPT ![i].st = "finished",
                                                  ![i].result = "failed"]
                    /\ UNCHANGED downloaded_files
            /\ UNCHANGED <<all_ok, list_failed>>
       ELSE /\ futures' = [futures EXCEPT ![i].st = "finished",
                                          ![i].result = "failed"]
            /\ all_ok' = FALSE
            /\ UNCHANGED list_failed
            /\ UNCHANGED <<disk, writes_after_stop, downloaded_files>>
    /\ UNCHANGED workerVars
    /\ UNCHANGED <<listing, state_file, pc, is_running, cfgVars, listVars,
                   countVars, loopVars, yielded, existing_files, mainVars,
                   signals, runVars, ended, last_progress>>

\* f.cancel() for every future: only a queued task can be cancelled.
CancelAll(fs) ==
    [i \in DOMAIN fs |->
        IF fs[i].st = "pending" THEN [fs[i] EXCEPT !.st = "cancelled"]
        ELSE fs[i]]

\* One iteration of the as_completed loop, for the finished future i.
AsCompleted(i) ==
    /\ pc = "pool"
    /\ i \in DOMAIN futures
    /\ i \notin yielded
    /\ futures[i].st = "finished"
    /\ IF ~is_running
       THEN /\ futures' = CancelAll(futures)
            /\ pc' = "join"
            /\ UNCHANGED <<yielded, downloaded_images, last_progress>>
       ELSE /\ yielded' = yielded \cup {i}
            /\ pc' = IF yielded \cup {i} = DOMAIN futures
                     THEN "join"
                     ELSE "pool"
            /\ UNCHANGED futures
            /\ LET result == futures[i].result
                   count == IF result = "ok" THEN downloaded_images + 1
                            ELSE downloaded_images
               IN  /\ downloaded_images' = count
                   /\ last_progress' =
                        IF result = "none" THEN last_progress
                        ELSE Percent(count, unique_images_to_download)
    /\ UNCHANGED workerVars
    /\ UNCHANGED <<envVars, is_running, cfgVars, listVars, total_images,
                   duplicate_images, unique_images_to_download, loopVars,
                   downloaded_files, existing_files, mainVars, signals,
                   runVars, writes_after_stop, all_ok, list_failed, ended>>

\* The end of the with block (executor.shutdown(wait=True)) and the
\* download_completed signal that follows it.
Join ==
    /\ pc = "join"
    /\ Running = {}
    /\ Pending = {}
    /\ signals' = Emit(signals, [sig |-> "download_completed"])
    /\ pc' = "done"
    /\ ended' = "completed"
    /\ UNCHANGED workerVars
    /\ UNCHANGED <<envVars, is_running, cfgVars, listVars, countVars,
                   loopVars, poolVars, downloaded_files, existing_files,
                   mainVars, runVars, writes_after_stop, all_ok, list_failed,
                   last_progress>>

\* The head of the loop over the additional pages; the loop's end, by
\* exhaustion or by break, is followed by download_completed.
ExtraCheck ==
    /\ pc = "extra"
    /\ IF page_id > extra_last \/ ~is_running
       THEN /\ signals' = Emit(signals, [sig |-> "download_completed"])
            /\ pc' = "done"
            /\ ended' = "completed"
       ELSE /\ pc' = "extra_get"
            /\ UNCHANGED <<signals, ended>>
    /\ UNCHANGED workerVars
    /\ UNCHANGED <<envVars, is_running, cfgVars, listVars, countVars,
                   loopVars, poolVars, downloaded_files, existing_files,
                   mainVars, runVars, writes_after_stop, all_ok, list_failed,
                   last_progress>>

\* The response of the GET of an additional page: another status skips the
\* page, an exception reaches the except clause of run().
ExtraResponse(outcome, content) ==
    /\ pc = "extra_get"
    /\ CASE outcome = "ok" ->
              /\ Answers(listing, page_id, content)
              /\ listing' = Fetched(listing, page_id, content)
              /\ img_i' = 1
              /\ pc' = "extra_img"
              /\ UNCHANGED <<page_id, signals, ended, all_ok, list_failed>>
         [] outcome = "status" ->
              /\ page_id' = page_id + 1
              /\ pc' = "extra"
              /\ all_ok' = FALSE
              /\ list_failed' = TRUE
              /\ UNCHANGED <<listing, img_i, signals, ended>>
         [] outcome = "error" ->
              /\ signals' = Emit(signals, [sig |-> "download_failed"])
              /\ pc' = "done"
              /\ ended' = "failed"
              /\ all_ok' = FALSE
              /\ UNCHANGED <<listing, img_i, page_id, list_failed>>
    /\ UNCHANGED workerVars
    /\ UNCHANGED <<disk, state_file, is_running, cfgVars, listVars,
                   countVars, start_page, extra_last, poolVars,
                   downloaded_files, existing_files, mainVars, runVars,
                   writes_after_stop, last_progress>>

\* One descriptor of an additional page, up to its GET: the loop over the
\* descriptors does not read is_running.
ExtraImg ==
    /\ pc = "extra_img"
    /\ IF img_i > Len(listing[page_id])
       THEN /\ page_id' = page_id + 1
            /\ pc' = "extra"
            /\ UNCHANGED <<img_i, duplicate_images>>
       ELSE IF IsNeeded(Basename(listing[page_id][img_i]), existing_files,
                        downloaded_files)
            THEN /\ pc' = "extra_dl"
                 /\ UNCHANGED <<page_id, img_i, duplicate_images>>
            ELSE /\ duplicate_images' = duplicate_images + 1
                 /\ img_i' = img_i + 1
                 /\ UNCHANGED <<pc, page_id>>
    /\ UNCHANGED workerVars
    /\ UNCHANGED <<envVars, is_running, cfgVars, listVars, total_images,
                   downloaded_images, unique_images_to_download, start_page,
                   extra_last, poolVars, downloaded_files, existing_files,
                   mainVars, signals, histVars>>

\* The response of the GET of a descriptor of an additional page.
ExtraDownload(outcome) ==
    /\ pc = "extra_dl"
    /\ LET filename == Basename(listing[page_id][img_i])
       IN  CASE outcome = "ok" ->
                  /\ disk' = disk \cup {filename}
                  /\ writes_after_stop' =
                         IF is_running THEN writes_after_stop
                         ELSE writes_after_stop + 1
                  /\ IF HasAdd(downloaded_files)
                     THEN /\ downloaded_files' =
                                Add(downloaded_files, filename)
                          /\ downloaded_images' = downloaded_images + 1
                          /\ unique_images_to_download' =
                                 unique_images_to_download + 1
                          /\ last_progress' =
                                 Percent(downloaded_images + 1,
                                         unique_images_to_download + 1)
                          /\ img_i' = img_i + 1
                          /\ pc' = "extra_img"
                          /\ UNCHANGED <<signals, ended>>
                     ELSE /\ signals' =
                                Emit(signals, [sig |-> "download_failed"])
                          /\ pc' = "done"
                          /\ ended' = "failed"
                          /\ UNCHANGED <<downloaded_files, downloaded_images,
                                         unique_images_to_download, img_i,
                                         last_progress>>
                  /\ UNCHANGED <<all_ok, list_failed>>
             [] outcome = "status" ->
                  /\ img_i' = img_i + 1
                  /\ pc' = "extra_img"
                  /\ all_ok' = FALSE
                  /\ UNCHANGED list_failed
                  /\ UNCHANGED <<disk, writes_after_stop, downloaded_files,
                                 downloaded_images,
                                 unique_images_to_download, signals, ended,
                                 last_progress>>
             [] outcome = "error" ->
                  /\ signals' = Emit(signals, [sig |-> "download_failed"])
                  /\ pc' = "done"
                  /\ ended' = "failed"
                  /\ all_ok' = FALSE
                  /\ UNCHANGED list_failed
                  /\ UNCHANGED <<disk, writes_after_stop, downloaded_files,
                                 downloaded_images,
                                 unique_images_to_download, img_i,
                                 last_progress>>
    /\ UNCHANGED workerVars
    /\ UNCHANGED <<listing, state_file, is_running, cfgVars, listVars,
                   total_images, duplicate_images, start_page, page_id,
                   extra_last, poolVars, existing_files, mainVars, runVars>>

\* The dict that stop() hands to json.dump.
ResumeState ==
    [current_page |-> current_page,
     processed_urls |-> processed_urls,
     downloaded_files |-> downloaded_files,
     total_images |-> total_images,
     downloaded_images |-> downloaded_images,
     duplicate_images |-> duplicate_images,
     concurrent_downloads |-> concurrent_downloads]

\* MainWindow.stopDownload up to its wait(): WallpaperDownloadThread.stop()
\* clears is_running and writes the sidecar file.
StopDownload ==
    /\ main_pc = "idle"
    /\ ThreadRunning
    /\ is_running' = FALSE
    /\ state_file' = JsonDump(ResumeState)
    /\ main_pc' = "wait"
    /\ stop_called' = TRUE
    /\ stop_snap' = [taken |-> TRUE,
                     current_page |-> current_page,
                     downloaded_files |-> downloaded_files.items]
    /\ UNCHANGED workerVars
    /\ UNCHANGED <<listing, disk, pc, cfgVars, listVars, countVars, loopVars,
                   poolVars, downloaded_files, existing_files, download_btn,
                   windowVars, signals, run_no, prev, writes_after_stop,
                   all_ok, list_failed, ended, last_progress>>

\* MainWindow.stopDownload after wait() has returned.
StopReturn ==
    /\ main_pc = "wait"
    /\ ~ThreadRunning
    /\ main_pc' = "idle"
    /\ download_btn' = TRUE
    /\ UNCHANGED workerVars
    /\ UNCHANGED <<envVars, threadVars, windowVars, signals, histVars>>

\* The slot of the oldest queued signal: downloadCompleted removes the
\* sidecar file, downloadCompleted and downloadFailed enable the button.
HandleSignal ==
    /\ main_pc = "idle"
    /\ signals # <<>>
    /\ signals' = Tail(signals)
    /\ state_file' = IF Head(signals).sig = "download_completed"
                     THEN NoFile
                     ELSE state_file
    /\ download_btn' = TRUE
    /\ UNCHANGED workerVars
    /\ UNCHANGED <<listing, disk, threadVars, main_pc, windowVars, histVars>>

Next ==
    \/ \E pcnt \in 1..MaxPageCount, conc \in 1..MaxConcurrent,
          reply \in {"Yes", "No"} : StartDownload(pcnt, conc, reply)
    \/ RunBegin
    \/ ListCheck
    \/ \E outcome \in GetOutcomes, content \in PageContents :
          ListResponse(outcome, content)
    \/ Filter
    \/ \E i \in DOMAIN futures : TaskStart(i)
    \/ \E i \in DOMAIN futures, outcome \in GetOutcomes :
          TaskFinish(i, outcome)
    \/ \E i \in DOMAIN futures : AsCompleted(i)
    \/ Join
    \/ ExtraCheck
    \/ \E outcome \in GetOutcomes, content \in PageContents :
          ExtraResponse(outcome, content)
    \/ ExtraImg
    \/ \E outcome \in GetOutcomes : ExtraDownload(outcome)
    \/ StopDownload
    \/ StopReturn
    \/ HandleSignal

Spec == InitThread /\ [][Next]_vars

\* The first run alone: what a run does in the pool and on the additional
\* pages depends on the directory and the listing it finds, and InitThread
\* lets the first run find any of them.
NextFirstRun ==
    \/ \E pcnt \in 1..MaxPageCount, conc \in 1..MaxConcurrent :
          run_no = 0 /\ StartDownload(pcnt, conc, "Yes")
    \/ RunBegin
    \/ ListCheck
    \/ \E outcome \in GetOutcomes, content \in PageContents :
          ListResponse(outcome, content)
    \/ Filter
    \/ \E i \in DOMAIN futures : TaskStart(i)
    \/ \E i \in DOMAIN futures, outcome \in GetOutcomes :
          TaskFinish(i, outcome)
    \/ \E i \in DOMAIN futures : AsCompleted(i)
    \/ Join
    \/ ExtraCheck
    \/ \E outcome \in GetOutcomes, content \in PageContents :
          ExtraResponse(outcome, content)
    \/ ExtraImg
    \/ \E outcome \in GetOutcomes : ExtraDownload(outcome)
    \/ StopDownload
    \/ StopReturn
    \/ HandleSignal

SpecFirstRun == InitThread /\ [][NextFirstRun]_vars

\* The sidecar files a window can find in the directory it is pointed at:
\* one that json.dump left truncated, or a whole one, for a run that had
\* reached current_page cp, had seen the URLs seen and was stopped before it
\* had downloaded any of them.
SidecarFiles ==
    { [exists |-> TRUE, complete |-> FALSE, current_page |-> cp] :
         cp \in 1..(MaxPageCount + 1) }
    \cup
    { [exists |-> TRUE, complete |-> TRUE, current_page |-> cp,
       processed_urls |-> seen,
       downloaded_files |-> {},
       total_images |-> Cardinality(seen),
       downloaded_images |-> 0,
       duplicate_images |-> 0,
       concurrent_downloads |-> 1] :
         cp \in 1..(MaxPageCount + 1),
         seen \in { {}, { CHOOSE u \in Urls : TRUE } } }

\* A window opened on a directory that holds a sidecar file and no image.
InitResume ==
    /\ disk = {}
    /\ state_file \in SidecarFiles
    /\ IdleThread
    /\ IdleWorker

\* The one run that the answer to the "resume?" question starts.
NextResume ==
    \/ \E pcnt \in 1..MaxPageCount, conc \in 1..MaxConcurrent,
          reply \in {"Yes", "No"} :
          run_no = 0 /\ StartDownload(pcnt, conc, reply)
    \/ RunBegin
    \/ ListCheck
    \/ \E outcome \in GetOutcomes, content \in PageContents :
          ListResponse(outcome, content)
    \/ Filter
    \/ \E i \in DOMAIN futures : TaskStart(i)
    \/ \E i \in DOMAIN futures, outcome \in GetOutcomes :
          TaskFinish(i, outcome)
    \/ \E i \in DOMAIN futures : AsCompleted(i)
    \/ Join
    \/ ExtraCheck
    \/ \E outcome \in GetOutcomes, content \in PageContents :
          ExtraResponse(outcome, content)
    \/ ExtraImg
    \/ \E outcome \in GetOutcomes : ExtraDownload(outcome)
    \/ StopDownload
    \/ StopReturn
    \/ HandleSignal

SpecResume == InitResume /\ [][NextResume]_vars

(***************************************************************************)
(* DownloadWorker.                                                         *)
(***************************************************************************)
\* The window before the download: the directory holds any of the files,
\* each of them whole.
InitWorker ==
    /\ disk = {}
    /\ state_file = NoFile
    /\ IdleThread
    /\ w_listing = [p \in {} |-> <<>>]
    /\ w_disk \in [FileNames -> {"none", "complete"}]
    /\ w_pc = "idle"
    /\ w_is_running = FALSE
    /\ pages = 1
    /\ max_retries = 1
    /\ page = 1
    /\ w_i = 1
    /\ attempt = 0
    /\ chunks_left = 0
    /\ w_result = "none"
    /\ success_count = 0
    /\ failed_count = 0
    /\ skipped_count = 0
    /\ srv_requests = 0
    /\ w_error = "none"
    /\ w_progress = -1
    /\ enumerated = 0
    /\ w_handled = [outcome |-> "none"]
    /\ w_ended = "none"
    /\ download_worker = "None"
    /\ start_button = TRUE
    /\ orphans = 0

\* QThread.isRunning() of the worker.
WorkerRunning == w_pc \notin {"idle", "done"}

\* The descriptor download_page is handling.
WFile == Basename(w_listing[page][w_i])

\* WallhavenDownloader.start_download with DownloadWorker.__init__: pgs
\* pages and the retry count of the spin boxes.
WStart(pgs, retries) ==
    /\ w_pc = "idle"
    /\ pages' = pgs
    /\ max_retries' = retries
    /\ w_is_running' = TRUE
    /\ page' = 1
    /\ w_pc' = "page"
    /\ UNCHANGED <<envVars, threadVars, mainVars, signals, histVars,
                   eventVars, netVars,
                   workerEnv, w_i, attempt, chunks_left, w_result, counters,
                   workerHist>>

\* DownloadWorker.stop, called by stop_download on a running worker.
WStop ==
    /\ WorkerRunning
    /\ w_is_running
    /\ w_is_running' = FALSE
    /\ UNCHANGED <<envVars, threadVars, mainVars, signals, histVars,
                   eventVars, netVars,
                   workerEnv, w_pc, workerCfg, workerLoop, counters,
                   workerHist>>

\* current_image of download_page, for the descriptor in hand.
current_image == ((page - 1) * 64) + w_i

\* total_images of DownloadWorker.run.
w_total_images == 64 * pages

\* The percent that WallhavenDownloader.update_progress hands to the progress
\* bar.
update_progress(current, total) == (current * 100) \div total

\* The head of the loop of run() over the pages: a stopped worker that has a
\* page left emits progress_updated(0, total_images, ...) and breaks.
WPageCheck ==
    /\ w_pc = "page"
    /\ w_pc' = IF page > pages \/ ~w_is_running THEN "end" ELSE "page_get"
    /\ w_progress' = IF page <= pages /\ ~w_is_running
                     THEN update_progress(0, w_total_images)
                     ELSE w_progress
    /\ UNCHANGED <<envVars, threadVars, mainVars, signals, histVars,
                   w_error, netVars,
                   workerEnv, w_is_running, workerCfg, workerLoop, counters,
                   workerHist>>

\* download_page up to its loop: the listing GET (an exception after its
\* three attempts included) and the status test.  A page that fails emits
\* error_occurred and returns to the loop of run().  page_data is the answer
\* for the page in hand: w_listing holds that page only, and all the pages
\* of a run list at most MaxListed descriptors.
WPageResponse(outcome, content) ==
    /\ w_pc = "page_get"
    /\ IF outcome = "ok"
       THEN /\ enumerated + Len(content) <= MaxListed
            /\ w_listing' = [q \in {page} |-> content]
            /\ w_i' = 1
            /\ w_pc' = "img"
            /\ UNCHANGED <<page, w_error>>
       ELSE /\ w_error' = outcome
            /\ page' = page + 1
            /\ w_pc' = "page"
            /\ UNCHANGED <<w_listing, w_i>>
    /\ UNCHANGED <<envVars, threadVars, mainVars, signals, histVars,
                   w_progress, netVars,
                   w_disk,
                   w_is_running, workerCfg, attempt, chunks_left, w_result,
                   counters, workerHist>>

\* One descriptor of the page, up to the first GET of
\* download_image_with_retry: the loop ends, or breaks on a stop, or counts
\* an existing file as skipped, or starts the transfer.
WImgCheck ==
    /\ w_pc = "img"
    /\ IF w_i > Len(w_listing[page])
       THEN /\ page' = page + 1
            /\ w_pc' = "page"
            /\ UNCHANGED <<attempt, skipped_count, enumerated, w_handled,
                           netVars, w_progress>>
       ELSE /\ enumerated' = enumerated + 1
            /\ IF ~w_is_running
               THEN /\ page' = page + 1
                    /\ w_pc' = "page"
                    /\ w_handled' = [outcome |-> "none"]
                    /\ UNCHANGED <<attempt, skipped_count, netVars,
                                   w_progress>>
               ELSE IF w_disk[WFile] # "none"
               THEN /\ skipped_count' = skipped_count + 1
                    /\ w_progress' =
                           update_progress(current_image, w_total_images)
                    /\ w_pc' = "delay"
                    /\ w_handled' = [outcome |-> "exists", file |-> WFile]
                    /\ UNCHANGED <<page, attempt, netVars>>
               ELSE /\ attempt' = 0
                    /\ srv_requests' = 1
                    /\ w_pc' = "resp"
                    /\ w_handled' = [outcome |-> "none"]
                    /\ UNCHANGED <<page, skipped_count, w_progress>>
    /\ UNCHANGED <<envVars, threadVars, mainVars, signals, histVars,
                   w_error,
                   workerEnv, w_is_running, workerCfg, w_i, chunks_left,
                   w_result, success_count, failed_count, w_ended>>

\* A transfer that gives up at its first transient failure.
FailAtOnce ==
    /\ w_pc' = "ret"
    /\ w_result' = "fail"

\* The retry test of download_image_with_retry after a transient failure.
RetryOrFail ==
    IF attempt < max_retries - 1
    THEN /\ w_pc' = "sleep"
         /\ UNCHANGED w_result
    ELSE /\ w_pc' = "ret"
         /\ w_result' = "fail"

\* k more requests for the asset in hand; the count stops at the first value
\* above max_retries.
MoreRequests(k) == Min(srv_requests + k, max_retries + 1)

\* What session.get hands to download_image_with_retry, after the adapter
\* has sent the request again resends times (it does so when the answer is a
\* status of status_forcelist or a connection error, transport_total times
\* at most): status 200 opens the destination file for writing, 403 and 404
\* are permanent; a status of status_forcelist or a connection error
\* ("transient") comes through once the adapter has no resend left, any
\* other status ("other") whenever it is the answer, and both are retried
\* while attempts remain; any other exception is final.
WResponse(outcome, n, resends) ==
    /\ w_pc = "resp"
    /\ srv_requests' = MoreRequests(resends)
    /\ CASE outcome = "200" ->
              /\ w_disk' = [w_disk EXCEPT ![WFile] = "partial"]
              /\ chunks_left' = n
              /\ w_pc' = "stream"
              /\ UNCHANGED w_result
         [] outcome = "403" ->
              /\ w_result' = "perm"
              /\ w_pc' = "ret"
              /\ UNCHANGED <<w_disk, chunks_left>>
         [] outcome = "transient" ->
              /\ resends = transport_total
              /\ RetryOrFail
              /\ UNCHANGED <<w_disk, chunks_left>>
         [] outcome = "other" ->
              /\ RetryOrFail
              /\ UNCHANGED <<w_disk, chunks_left>>
         [] outcome = "exception" ->
              /\ w_result' = "unknown"
              /\ w_pc' = "ret"
              /\ UNCHANGED <<w_disk, chunks_left>>
    /\ UNCHANGED <<envVars, threadVars, mainVars, signals, histVars,
                   eventVars,
                   w_listing, w_is_running, workerCfg, page, w_i, attempt,
                   counters, workerHist>>

\* One step of the loop over iter_content: the body ends and the file is
\* whole, or a chunk arrives (is_running is read before it is written), or
\* the stream breaks.
WChunk(event) ==
    /\ w_pc = "stream"
    /\ IF chunks_left = 0
       THEN /\ event = "data"
            /\ w_disk' = [w_disk EXCEPT ![WFile] = "complete"]
            /\ w_result' = "success"
            /\ w_pc' = "ret"
            /\ UNCHANGED chunks_left
       ELSE CASE event = "data" ->
                   IF w_is_running
                   THEN /\ chunks_left' = chunks_left - 1
                        /\ UNCHANGED <<w_pc, w_result, w_disk>>
                   ELSE /\ w_result' = "interrupted"
                        /\ w_pc' = "ret"
                        /\ UNCHANGED <<chunks_left, w_disk>>
              [] event = "broken" ->
                   /\ RetryOrFail
                   /\ UNCHANGED <<chunks_left, w_disk>>
              [] event = "exception" ->
                   /\ w_result' = "unknown"
                   /\ w_pc' = "ret"
                   /\ UNCHANGED <<chunks_left, w_disk>>
    /\ UNCHANGED <<envVars, threadVars, mainVars, signals, histVars,
                   eventVars, netVars,
                   w_listing, w_is_running, workerCfg, page, w_i, attempt,
                   counters, workerHist>>

\* The backoff sleep and the GET of the next attempt.
WSleep ==
    /\ w_pc = "sleep"
    /\ attempt' = attempt + 1
    /\ srv_requests' = MoreRequests(1)
    /\ w_pc' = "resp"
    /\ UNCHANGED <<envVars, threadVars, mainVars, signals, histVars,
                   eventVars,
                   workerEnv, w_is_running, workerCfg, page, w_i,
                   chunks_left, w_result, counters, enumerated, w_handled,
                   w_ended>>

\* Counters in which a permanent failure is counted twice.
CountersTwice(result, c) ==
    CASE result = "success" -> <<c[1] + 1, c[2], c[3]>>
      [] result = "perm" -> <<c[1], c[2] + 1, c[3] + 1>>
      [] OTHER -> <<c[1], c[2] + 1, c[3]>>

\* Counters in which a permanent failure is counted as failed.
CountersPermFailed(result, c) ==
    CASE result = "success" -> <<c[1] + 1, c[2], c[3]>>
      [] OTHER -> <<c[1], c[2] + 1, c[3]>>

\* The counters <<success, failed, skipped>> after a transfer has returned
\* result to a worker that is still running.
CountersAfter(result, c) ==
    CASE result = "success" -> <<c[1] + 1, c[2], c[3]>>
      [] result = "perm" -> <<c[1], c[2], c[3] + 1>>
      [] OTHER -> <<c[1], c[2] + 1, c[3]>>

\* A worker that never sees the stop after a transfer.
StopNeverSeen == FALSE

\* The test "if not self.is_running: break" that follows the return of
\* download_image_with_retry.
StopSeenAfterTransfer == ~w_is_running

\* download_page after download_image_with_retry has returned: a stopped
\* worker breaks out of the loop at once; a running one counts the outcome,
\* emits progress_updated and, when it is no success, removes the file.  The locals of
\* download_image_with_retry are gone.
WReturn ==
    /\ w_pc = "ret"
    /\ w_handled' = [outcome |-> w_result, file |-> WFile]
    /\ IF StopSeenAfterTransfer
       THEN /\ page' = page + 1
            /\ w_pc' = "page"
            /\ UNCHANGED <<w_disk, counters, w_progress>>
       ELSE /\ LET c == CountersAfter(w_result, counters)
               IN  /\ success_count' = c[1]
                   /\ failed_count' = c[2]
                   /\ skipped_count' = c[3]
            /\ w_progress' = update_progress(current_image, w_total_images)
            /\ w_disk' = IF w_result = "success" THEN w_disk
                         ELSE [w_disk EXCEPT ![WFile] = "none"]
            /\ w_pc' = "delay"
            /\ UNCHANGED page
    /\ attempt' = 0
    /\ chunks_left' = 0
    /\ w_result' = "none"
    /\ srv_requests' = 0
    /\ UNCHANGED <<envVars, threadVars, mainVars, signals, histVars,
                   w_error,
                   w_listing, w_is_running, workerCfg, w_i, enumerated,
                   w_ended>>

\* The end of one iteration: the statistics signal, the stop test and the
\* delay before the next descriptor.
WDelay ==
    /\ w_pc = "delay"
    /\ IF ~w_is_running
       THEN /\ page' = page + 1
            /\ w_pc' = "page"
            /\ UNCHANGED w_i
       ELSE /\ w_i' = w_i + 1
            /\ w_pc' = "img"
            /\ UNCHANGED page
    /\ UNCHANGED <<envVars, threadVars, mainVars, signals, histVars,
                   eventVars, netVars,
                   workerEnv, w_is_running, workerCfg, attempt, chunks_left,
                   w_result, counters, workerHist>>

\* run() after its loop: download_finished is emitted when is_running holds.
WEnd ==
    /\ w_pc = "end"
    /\ w_ended' = IF w_is_running THEN "finished" ELSE "stopped"
    /\ w_pc' = "done"
    /\ UNCHANGED <<envVars, threadVars, mainVars, signals, histVars,
                   eventVars, netVars,
                   workerEnv, w_is_running, workerCfg, workerLoop, counters,
                   enumerated, w_handled>>

NextWorker ==
    \/ \E pgs \in 1..MaxPageCount, retries \in 1..MaxRetries :
          WStart(pgs, retries)
    \/ WStop
    \/ WPageCheck
    \/ \E outcome \in {"ok", "status", "error"}, content \in PageContents :
          WPageResponse(outcome, content)
    \/ WImgCheck
    \/ \E n \in 1..MaxChunks, resends \in 0..transport_total :
          WResponse("200", n, resends)
    \/ \E outcome \in {"403", "other"}, resends \in 0..transport_total :
          WResponse(outcome, 0, resends)
    \/ WResponse("transient", 0, transport_total)
    \/ \E resends \in 0..transport_total :
          WResponse("exception", 0, resends)
    \/ \E event \in {"data", "broken", "exception"} : WChunk(event)
    \/ WSleep
    \/ WReturn
    \/ WDelay
    \/ WEnd

SpecWorker == InitWorker /\ [][NextWorker]_vars

\* The steps of DownloadWorker.run.
WorkerSteps ==
    \/ WPageCheck
    \/ \E outcome \in {"ok", "status", "error"}, content \in PageContents :
          WPageResponse(outcome, content)
    \/ WImgCheck
    \/ \E n \in 1..MaxChunks, resends \in 0..transport_total :
          WResponse("200", n, resends)
    \/ \E outcome \in {"403", "other"}, resends \in 0..transport_total :
          WResponse(outcome, 0, resends)
    \/ WResponse("transient", 0, transport_total)
    \/ \E resends \in 0..transport_total :
          WResponse("exception", 0, resends)
    \/ \E event \in {"data", "broken", "exception"} : WChunk(event)
    \/ WSleep
    \/ WReturn
    \/ WDelay
    \/ WEnd

(***************************************************************************)
(* WallhavenDownloader, the window that owns DownloadWorker.               *)
(***************************************************************************)
\* stop_download is in self.download_worker.wait(3000): the window handles
\* no click and no signal.
Waiting == download_worker = "set" /\ ~w_is_running

\* start_download, on a click of the enabled start button: it refuses when
\* the worker it refers to is running, and otherwise creates and starts a
\* new DownloadWorker.  A worker that the window no longer refers to goes on
\* executing its run() on the same directory.
start_download(pgs, retries) ==
    /\ start_button
    /\ ~Waiting
    /\ ~(download_worker = "set" /\ WorkerRunning)
    /\ WorkerRunning => orphans < MaxRuns - 1
    /\ orphans' = IF WorkerRunning THEN orphans + 1 ELSE orphans
    /\ download_worker' = "set"
    /\ start_button' = FALSE
    /\ w_listing' = [p \in {} |-> <<>>]
    /\ pages' = pgs
    /\ max_retries' = retries
    /\ w_is_running' = TRUE
    /\ w_pc' = "page"
    /\ page' = 1
    /\ w_i' = 1
    /\ attempt' = 0
    /\ chunks_left' = 0
    /\ w_result' = "none"
    /\ success_count' = 0
    /\ failed_count' = 0
    /\ skipped_count' = 0
    /\ srv_requests' = 0
    /\ w_error' = "none"
    /\ w_progress' = -1
    /\ enumerated' = 0
    /\ w_handled' = [outcome |-> "none"]
    /\ w_ended' = "none"
    /\ UNCHANGED <<envVars, threadVars, main_pc, download_btn, signals,
                   histVars, w_disk>>

\* stop_download after wait(3000) has returned: the worker has ended, or the
\* three seconds have passed while it is in a request or a backoff sleep.
stop_download_return ==
    /\ Waiting
    /\ ~WorkerRunning \/ w_pc \in {"page_get", "resp", "stream", "sleep"}
    /\ start_button' = TRUE
    /\ download_worker' = "None"
    /\ UNCHANGED <<envVars, threadVars, main_pc, download_btn, signals,
                   histVars, workerVars, orphans>>

\* The slot of error_occurred.
download_error ==
    /\ ~Waiting
    /\ w_error # "none"
    /\ start_button' = TRUE
    /\ download_worker' = "None"
    /\ UNCHANGED <<envVars, threadVars, main_pc, download_btn, signals,
                   histVars, workerVars, orphans>>

\* The slot of download_finished.
download_finished ==
    /\ ~Waiting
    /\ w_ended = "finished"
    /\ start_button' = TRUE
    /\ download_worker' = "None"
    /\ UNCHANGED <<envVars, threadVars, main_pc, download_btn, signals,
                   histVars, workerVars, orphans>>

\* The run() of a worker the window has let go of returns.
OrphanEnd ==
    /\ orphans > 0
    /\ orphans' = orphans - 1
    /\ UNCHANGED <<envVars, threadVars, main_pc, download_btn, signals,
                   histVars, workerVars, download_worker, start_button>>

NextWindow ==
    \/ \E pgs \in 1..MaxPageCount, retries \in 1..MaxRetries :
          start_download(pgs, retries)
    \/ download_worker = "set" /\ WStop
    \/ stop_download_return
    \/ download_error
    \/ download_finished
    \/ OrphanEnd
    \/ WorkerSteps

SpecWindow == InitWorker /\ [][NextWindow]_vars

(***************************************************************************)
(* Progress.  One of the two downloaders is started; the threads of a run  *)
(* are scheduled, and every request and every sleep returns.               *)
(***************************************************************************)
InitLive ==
    /\ disk \in SUBSET FileNames
    /\ state_file = NoFile
    /\ IdleThread
    /\ IdleWorker

\* The steps of WallpaperDownloadThread.run and of its pool threads.
ThreadSteps ==
    \/ RunBegin
    \/ ListCheck
    \/ \E outcome \in GetOutcomes, content \in PageContents :
          ListResponse(outcome, content)
    \/ Filter
    \/ \E i \in DOMAIN futures : TaskStart(i)
    \/ \E i \in DOMAIN futures, outcome \in GetOutcomes :
          TaskFinish(i, outcome)
    \/ \E i \in DOMAIN futures : AsCompleted(i)
    \/ Join
    \/ ExtraCheck
    \/ \E outcome \in GetOutcomes, content \in PageContents :
          ExtraResponse(outcome, content)
    \/ ExtraImg
    \/ \E outcome \in GetOutcomes : ExtraDownload(outcome)

NextLive ==
    \/ \E pcnt \in 1..MaxPageCount, conc \in 1..MaxConcurrent :
          run_no = 0 /\ w_pc = "idle" /\ StartDownload(pcnt, conc, "Yes")
    \/ ThreadSteps
    \/ StopDownload
    \/ StopReturn
    \/ HandleSignal
    \/ \E pgs \in 1..MaxPageCount, retries \in 1..MaxRetries :
          run_no = 0 /\ WStart(pgs, retries)
    \/ WStop
    \/ WorkerSteps

SpecLive ==
    /\ InitLive
    /\ [][NextLive]_vars
    /\ WF_vars(ThreadSteps)
    /\ WF_vars(WorkerSteps)


(***************************************************************************)
(* Properties of WallpaperDownloadThread and MainWindow.                   *)
(***************************************************************************)
\* The file a transfer of the run thread or of a pool thread is fetching.
InTransfer ==
    { Basename(futures[i].url) : i \in Running }
        \cup (IF pc = "extra_dl"
              THEN {Basename(listing[page_id][img_i])}
              ELSE {})

\* The number of transfers in flight.
InFlight == Cardinality(Running) + (IF pc = "extra_dl" THEN 1 ELSE 0)

\* The run follows a run that was stopped, and the user has not declined to
\* resume it.
AfterStoppedRun ==
    /\ prev.run
    /\ prev.stopped
    /\ ~prev.discarded
    /\ ~stop_called
    /\ stop_snap.taken

\* C1: a run started after a stopped run begins its listing at the page the
\* stop saved as current_page, and transfers no file that the stop saved in
\* downloaded_files.
ResumeCorrectness ==
    (AfterStoppedRun /\ pc \notin {"idle", "run"})
        => /\ start_page = stop_snap.current_page
           /\ InTransfer \cap stop_snap.downloaded_files = {}

\* C2: the step in which stop() clears is_running leaves a sidecar file that
\* json.load parses, with the thread's current_page, processed_urls,
\* downloaded_files and counts of that moment.
SaveLoadRoundTrip ==
    [][(is_running /\ ~is_running')
          => /\ state_file'.exists
             /\ JsonLoad(state_file').ok
             /\ JsonLoad(state_file').current_page = current_page
             /\ JsonLoad(state_file').processed_urls.items
                    = processed_urls.items
             /\ JsonLoad(state_file').downloaded_files.items
                    = downloaded_files.items
             /\ JsonLoad(state_file').total_images = total_images
             /\ JsonLoad(state_file').downloaded_images = downloaded_images
             /\ JsonLoad(state_file').duplicate_images = duplicate_images
             /\ JsonLoad(state_file').concurrent_downloads
                    = concurrent_downloads]_vars

\* C3: once a stopped run has ended and its signals have been handled, the
\* sidecar file exists.
SidecarKeptAfterStop ==
    (stop_called /\ pc = "done" /\ main_pc = "idle" /\ signals = <<>>)
        => state_file.exists

\* C4: no two tasks that pool threads are executing write the same file.
NoDuplicateInFlight ==
    \A i, j \in Running :
        i # j => Basename(futures[i].url) # Basename(futures[j].url)

\* C5: in the pool and on the additional pages, the number of transfers in
\* flight never exceeds concurrent_downloads.
BoundedConcurrency == InFlight <= concurrent_downloads

\* C5, its case: every pool thread is busy while a task waits in the queue.
PoolFull ==
    /\ pc = "pool"
    /\ Cardinality(Running) = concurrent_downloads
    /\ Pending # {}

\* C7: a run that follows a completed run in which every request succeeded,
\* with the same page count, downloads nothing.
SecondRunDownloadsNothing ==
    (prev.run /\ prev.clean /\ prev.page_count = page_count
        /\ pc \notin {"idle", "run"})
        => /\ downloaded_images = 0
           /\ \A i \in DOMAIN futures : futures[i].result # "ok"

\* C10: after stop(), at most concurrent_downloads transfers write a file.
BoundedWorkAfterStop == writes_after_stop <= concurrent_downloads

(***************************************************************************)
(* Properties of DownloadWorker.                                           *)
(***************************************************************************)
\* C6: success_count + failed_count + skipped_count never exceeds the number
\* of descriptors the loop of download_page has reached, and equals it when
\* download_finished is emitted.
ExactlyOnceAccounting ==
    /\ success_count + failed_count + skipped_count <= enumerated
    /\ w_ended = "finished"
          => success_count + failed_count + skipped_count = enumerated

\* C6, its case: a finished run that has counted a success, a failure and a
\* skip.
FinishedWithMixedOutcomes ==
    /\ w_ended = "finished"
    /\ enumerated >= 2
    /\ failed_count > 0
    /\ skipped_count > 0

\* C8: when a transfer has returned anything but success, its destination
\* file does not exist.
NoPartialFiles ==
    w_handled.outcome \in {"perm", "fail", "unknown", "interrupted"}
        => w_disk[w_handled.file] = "none"

\* C9: once stop() has cleared is_running, the worker issues no further GET
\* for an asset, that is, takes no step that leaves it waiting for the
\* response of one.
NoGetAfterStop ==
    [][(WorkerRunning /\ ~w_is_running)
          => ~(w_pc # "resp" /\ w_pc' = "resp")]_vars

\* C11: when stop() has been called while a transfer was in progress, no step
\* of the worker changes success_count, failed_count or skipped_count, for
\* the descriptor of that transfer or later in the run.
CancelledExcluded ==
    [][(~w_is_running
          /\ (w_pc \in {"resp", "stream", "sleep", "ret"}
                \/ w_handled.outcome \notin {"none", "exists"}))
          => counters' = counters]_vars

\* C11, its case: the run has ended after a transfer that returned because
\* of the stop, and that descriptor is in no counter.
CancelledTransferReturned ==
    /\ w_pc = "done"
    /\ w_handled.outcome = "interrupted"
    /\ success_count + failed_count + skipped_count < enumerated

\* The step in which download_page takes the result of a transfer whose
\* first response was 403 or 404.
FirstResponsePermanent ==
    /\ w_pc = "ret"
    /\ w_pc' # "ret"
    /\ w_result = "perm"
    /\ attempt = 0

\* C12 as stated: when the first response for an asset is 403 or 404, the
\* transfer returns without a retry, skipped_count increases by one and
\* failed_count is unchanged.
PermanentSkipped ==
    [][/\ (w_pc = "resp" /\ w_result' = "perm") => w_pc' = "ret"
       /\ FirstResponsePermanent
             => /\ skipped_count' = skipped_count + 1
                /\ failed_count' = failed_count]_vars

\* C12 amended: when the first response for an asset is 403 or 404, the
\* transfer returns without a retry; if the worker has not been stopped when
\* the transfer returns, skipped_count increases by one and failed_count and
\* success_count are unchanged; if it has been stopped, no counter changes.
PermanentSkippedUnlessStopped ==
    [][/\ (w_pc = "resp" /\ w_result' = "perm")
             => (w_pc' = "ret" /\ attempt' = attempt)
       /\ (FirstResponsePermanent /\ w_is_running)
             => /\ skipped_count' = skipped_count + 1
                /\ failed_count' = failed_count
                /\ success_count' = success_count
       /\ (FirstResponsePermanent /\ ~w_is_running)
             => counters' = counters]_vars

\* C12, its case: retries were allowed, the only descriptor so far got 403 or
\* 404 at once and has been counted as skipped.
PermanentCounted ==
    /\ w_handled.outcome = "perm"
    /\ w_pc = "delay"
    /\ max_retries = MaxRetries
    /\ enumerated = 1
    /\ skipped_count = 1
    /\ failed_count = 0

\* C13: for one asset, the worker sends at most max_retries GET requests to
\* the asset server, the first one included.
RetryBound == srv_requests <= max_retries

\* C14: once the fetch of a listing page has returned a non-200 status, the
\* run fetches no further listing page, and the failure has been reported:
\* a DownloadWorker has emitted error_occurred and is not waiting for a
\* listing page, a WallpaperDownloadThread has ended with download_failed.
ListingFailureStops ==
    /\ w_error = "status" => w_pc \notin {"page_get"}
    /\ list_failed => (pc = "done" /\ ended = "failed")

\* The part of C14 that is about WallpaperDownloadThread.
ThreadListingFailureStops == list_failed => (pc = "done" /\ ended = "failed")

\* C15: the terminal events of a run are exclusive.  A run of DownloadWorker
\* that has emitted error_occurred does not emit download_finished.
TerminalExclusive == ~(w_error # "none" /\ w_ended = "finished")

\* C16: a failure of an asset GET never aborts the run of
\* WallpaperDownloadThread.  Whatever a pool task's GET gives, the run goes
\* on and no terminal signal is emitted by that step; whatever the GET of a
\* descriptor of an additional page gives (downloaded_files being a set), the
\* run goes on with the next descriptor.
AssetFailureContinues ==
    [][/\ (\E i \in Running : futures'[i].st = "finished")
            => (pc' = pc /\ ended' = ended /\ signals' = signals)
       /\ (pc = "extra_dl" /\ HasAdd(downloaded_files) /\ pc' # pc)
            => (pc' = "extra_img" /\ ended' = ended)]_vars

\* C17: every percent that a run of WallpaperDownloadThread emits with
\* progress_updated is in 0..100 and is not below the percent emitted before
\* it in the same run, in the pool and on the additional pages.
ProgressMonotone ==
    [][(last_progress' # last_progress /\ run_no' = run_no)
          => (last_progress' \in 0..100 /\ last_progress' > last_progress)]_vars

ProgressHalfWay ==
    /\ pc = "pool"
    /\ unique_images_to_download = 2
    /\ downloaded_images = 1
    /\ last_progress = 50

\* C18: every percent that the progress bar of DownloadWorker's window is
\* given is in 0..100 and is not below the percent it was given before, also
\* when the run is stopped.
WorkerProgressMonotone ==
    [][w_progress' # w_progress
          => (w_progress' \in 0..100 /\ w_progress' > w_progress)]_vars

\* C19: in every state of WallpaperDownloadThread the images downloaded and
\* the duplicates together are at most the images listed:
\* downloaded_images + duplicate_images <= total_images.
CounterInvariant == downloaded_images + duplicate_images <= total_images

\* C20: when the dedup filter of WallpaperDownloadThread runs, a transfer is
\* scheduled for an enumerated descriptor if and only if its file name is
\* neither the name of a file in the directory nor in downloaded_files,
\* whatever the prefix and the extension of the name.
DedupFilter ==
    [][(pc = "filter" /\ pc' # "filter")
          => \A k \in 1..Len(all_image_urls) :
                LET u == all_image_urls[k]
                    scheduled == /\ pc' = "pool"
                                 /\ \E i \in DOMAIN futures' :
                                       futures'[i].url = u
                IN  scheduled <=> /\ Basename(u) \notin disk
                                  /\ Basename(u) \notin downloaded_files.items
      ]_vars

\* C21: a sidecar file that cannot be parsed is not fatal.  When startDownload
\* finds one and the user answers Yes, a thread is started all the same, with
\* is_resuming false, current_page 1 and empty processed_urls and
\* downloaded_files, and its run() enumerates from page 1.
CorruptSidecarFreshRun ==
    [][/\ (state_file.exists /\ ~state_file.complete /\ run_no' = run_no + 1)
            => /\ pc' = "run" /\ is_running'
               /\ ~is_resuming'
               /\ current_page' = 1
               /\ processed_urls' = PySet({})
               /\ downloaded_files' = PySet({})
       /\ (pc = "run" /\ pc' = "list" /\ state_file.exists
             /\ ~state_file.complete)
            => (start_page' = 1 /\ page_id' = 1)]_vars

CorruptSidecarFound ==
    /\ state_file.exists /\ ~state_file.complete
    /\ state_file.current_page = 2
    /\ ~stop_called
    /\ pc = "list_get" /\ page_id = 1 /\ ~is_resuming

\* C22: the fields that go into the resume state or are reported as
\* statistics have a single writer, the thread that executes run(): a step of
\* a worker-pool task (download_single_image) changes none of current_page,
\* processed_urls, downloaded_files, total_images, downloaded_images and
\* duplicate_images.
SingleWriter ==
    [][(\E i \in Running : futures'[i].st = "finished")
          => UNCHANGED <<current_page, processed_urls, downloaded_files,
                         total_images, downloaded_images,
                         duplicate_images>>]_vars

\* C23: within one run of WallpaperDownloadThread the listing pages are
\* fetched in strictly ascending order of their numbers and current_page
\* never decreases, in a fresh run and in a resumed one, also when the saved
\* current_page is above page_count.
OrderedEnumeration ==
    [][/\ (pc' \in {"list_get", "extra_get"} /\ pc' # pc)
            => \A q \in DOMAIN listing : q < page_id'
       /\ (pc \in {"list_get", "extra_get"} /\ pc' \in {"list", "extra"})
            => page_id' > page_id
       /\ (pc \notin {"idle", "done"}) => current_page' >= current_page]_vars

ResumedBeyondPageCount ==
    /\ is_resuming
    /\ current_page > page_count
    /\ pc = "extra_get"
    /\ page_count + 1 \in DOMAIN listing
    /\ page_id = page_count + 2

\* C24: every request and every sleep returning, a run of either downloader
\* on which stop() has been called returns: the run() of a stopped
\* WallpaperDownloadThread and the run() of a stopped DownloadWorker
\* eventually end.
StopTerminates ==
    /\ (stop_called /\ ThreadRunning) ~> ~ThreadRunning
    /\ (WorkerRunning /\ ~w_is_running) ~> ~WorkerRunning

StoppedInFlightReturned ==
    /\ stop_called
    /\ writes_after_stop = 1
    /\ pc = "done"

\* An attempt of download_image_with_retry ends in a failure of result r.
AttemptFails(r) ==
    /\ w_pc \in {"resp", "stream"}
    /\ \/ w_pc' = "sleep" /\ r = "fail"
       \/ w_pc' = "ret" /\ w_result' = r

\* C25 as stated: every failed attempt that is no 403 or 404, whatever the
\* status or the error, is followed by another attempt while fewer than
\* max_retries attempts have been made, and the transfer is given up as
\* failed only after max_retries attempts.
RetriedWhateverTheError ==
    [][\A r \in {"fail", "unknown"} :
          AttemptFails(r) => IF attempt + 1 < max_retries
                             THEN w_pc' = "sleep"
                             ELSE w_pc' = "ret"]_vars

\* C25, amended: a failed attempt that is another non-200 status than 403
\* and 404, or a ConnectionError, Timeout or ChunkedEncodingError, is
\* followed by another attempt while fewer than max_retries attempts have
\* been made; the transfer is given up, and counted as failed by a running
\* worker, only after max_retries attempts.  Any other exception ends the
\* transfer at its first occurrence.
RetriedWhileAttemptsRemain ==
    [][/\ AttemptFails("fail") => IF attempt + 1 < max_retries
                                  THEN w_pc' = "sleep"
                                  ELSE w_pc' = "ret"
       /\ AttemptFails("unknown") => w_pc' = "ret"
       /\ (w_pc = "ret" /\ w_pc' # "ret" /\ w_result = "fail")
            => /\ attempt + 1 = max_retries
               /\ w_is_running => failed_count' = failed_count + 1]_vars

FailedAfterLastAttempt ==
    /\ w_pc = "ret"
    /\ w_result = "fail"
    /\ max_retries = MaxRetries
    /\ attempt = MaxRetries - 1

\* C26: every progress event of the worker-pool phase of
\* WallpaperDownloadThread carries floor(100 * completed / unique_total)
\* clamped to 0..100, completed being the number of scheduled jobs that have
\* come to a terminal outcome, successful or not, and unique_total the
\* number of jobs scheduled.
ProgressFormula ==
    [][(pc = "pool" /\ \E i \in yielded' \ yielded :
                          futures[i].result # "none")
          => LET completed ==
                     Cardinality({ i \in yielded' :
                                      futures[i].result # "none" })
             IN  last_progress' = Min(100, (100 * completed)
                                             \div Len(futures))]_vars

\* The page extension of run(): the loop over the additional pages.
InExtension == pc \in {"extra", "extra_get", "extra_img", "extra_dl"}

\* C27: WallpaperDownloadThread fetches pages beyond page_count only when no
\* enumerated descriptor needs a transfer and total_images < 64 * page_count;
\* it then fetches at most ceil((64 * page_count - total_images) / 64)
\* additional pages, which is at most page_count, with consecutive numbers
\* from page_count + 1 on, and the extension always comes to its end.
BoundedPageExtension ==
    /\ [](pc = "list_get" => page_id <= page_count)
    /\ [](InExtension
            => /\ unique_images_to_download = downloaded_images
               /\ \A k \in 1..Len(all_image_urls) :
                     ~IsNeeded(Basename(all_image_urls[k]), existing_files,
                               PySet({}))
               /\ total_images < 64 * page_count
               /\ extra_last - page_count
                     = ((64 * page_count - total_images) + 63) \div 64
               /\ extra_last - page_count <= page_count
               /\ page_id \in (page_count + 1)..(extra_last + 1)
               /\ pc # "extra" => page_id <= extra_last)
    /\ [][/\ (~InExtension /\ InExtension') => page_id' = page_count + 1
          /\ (InExtension /\ InExtension')
               => page_id' \in {page_id, page_id + 1}]_vars
    /\ InExtension ~> (pc = "done")

PageExtensionCompleted ==
    /\ pc = "done" /\ ended = "completed"
    /\ total_images = 1
    /\ page_count = MaxPageCount
    /\ extra_last = 2 * page_count
    /\ page_id = extra_last + 1

\* The images listed on the pages 1..page_count, as far as this run has
\* fetched them, whose file is neither in the directory nor in
\* downloaded_files.
Remaining ==
    { u \in Urls :
        /\ \E p \in DOMAIN listing \cap 1..page_count :
              \E k \in 1..Len(listing[p]) : listing[p][k] = u
        /\ Basename(u) \notin disk
        /\ Basename(u) \notin downloaded_files.items }

CancelledNotCompleted ==
    /\ (stop_called /\ \E i \in DOMAIN futures : futures[i].st = "cancelled")
          => ended # "completed"
    /\ ~w_is_running => w_ended # "finished"

\* C30: whatever the sequence of start_download, stop_download,
\* download_error and download_finished, no DownloadWorker is started while
\* the run() of a DownloadWorker started before it is still executing.
SingleActiveWorker == orphans = 0

=============================================================================
